---- MODULE Spec2Model ----
(***************************************************************************)
(* A model of jwtk's ECDSA key type (src/src/ecdsa.rs) and of the key      *)
(* variant dispatch (src/src/some.rs).                                     *)
(*                                                                         *)
(* Bytes are the integers 0..255 and byte strings are sequences of them.   *)
(* A BigNum is represented by its magnitude in base 256 without leading    *)
(* zero digits (the empty sequence is the integer 0), which is what        *)
(* BN_bn2bin writes and what BN_bin2bn reads after skipping zero bytes.    *)
(* A Result is a record [kind |-> "Ok", val |-> v] or                      *)
(* [kind |-> "Err", err |-> e]; a call that aborts (a Rust panic) yields   *)
(* [kind |-> "Panic"].                                                     *)
(***************************************************************************)
EXTENDS Integers, Sequences, FiniteSets, TLC

\* ------------------------------------------------------------------ bounds

\* Magnitudes of 1..MaxShort bytes are enumerated (the short end).
MaxShort == 2

\* Magnitudes with 0..MaxPad leading zero bytes in their fixed-width field are
\* enumerated (the long end).
MaxPad == 2

\* ------------------------------------------------------------ Result values

Ok(v) == [kind |-> "Ok", val |-> v]

Err(e) == [kind |-> "Err", err |-> e]

Panic == [kind |-> "Panic"]

IsOk(res) == res.kind = "Ok"

IsErr(res, e) == res.kind = "Err" /\ res.err = e

\* The `?` operator on an openssl ErrorStack: the crate's Error::from.
OpenSslError == "OpenSsl"

NoKey == [kind |-> "none"]

\* ------------------------------------------------------------- byte strings

Rep(b, n) == [i \in 1..n |-> b]

Zeros(n) == Rep(0, n)

\* Iterator::position(|&x| x != 0): the 0-based index of the first non-zero
\* byte, or None (-1 here).
NoneIdx == -1

position(bytes) ==
    IF \E i \in 1..Len(bytes) : bytes[i] # 0
    THEN (CHOOSE i \in 1..Len(bytes) :
             bytes[i] # 0 /\ \A j \in 1..(i - 1) : bytes[j] = 0) - 1
    ELSE NoneIdx

unwrap_or(opt, default) == IF opt = NoneIdx THEN default ELSE opt

\* &bytes[a..b] with 0-based a and exclusive b: Rust panics when a > b or
\* b > len.
slice(bytes, a, b) ==
    IF a > b \/ b > Len(bytes) \/ a < 0
    THEN [panic |-> TRUE, val |-> <<>>]
    ELSE [panic |-> FALSE, val |-> SubSeq(bytes, a + 1, b)]

\* BigNum::from_slice: BN_bin2bn skips leading zero bytes.
from_slice(bytes) ==
    LET p == position(bytes)
    IN IF p = NoneIdx THEN <<>> ELSE SubSeq(bytes, p + 1, Len(bytes))

\* BigNum::to_vec: BN_bn2bin writes BN_num_bytes bytes, the minimal
\* big-endian magnitude (nothing for 0).
to_vec(bn) == from_slice(bn)

\* One ASN.1 INTEGER's content octets for a non-negative BigNum: a zero octet
\* is put in front when the top bit is set, and 0 is one zero octet.
ToDerInt(bn) ==
    IF bn = <<>> THEN <<0>>
    ELSE IF bn[1] >= 128 THEN <<0>> \o bn ELSE bn

\* EcdsaSig::to_der / the DER a Signer emits: SEQUENCE { INTEGER r, INTEGER s }.
to_der(r, s) == [r |-> ToDerInt(r), s |-> ToDerInt(s)]

\* EcdsaSig::from_der: the two INTEGERs read back as BigNums.
from_der(der) == [r |-> from_slice(der.r), s |-> from_slice(der.s)]

\* ------------------------------------------------------ EcdsaAlgorithm

EcdsaAlgorithm == {"ES256", "ES384", "ES512"}

X9_62_PRIME256V1 == "prime256v1"

SECP384R1 == "secp384r1"

SECP521R1 == "secp521r1"

SECP256K1 == "secp256k1"

\* EcGroup::curve_name() is None for a group given by explicit parameters.
NoNid == "undef"

curve(alg) ==
    CASE alg = "ES256" -> X9_62_PRIME256V1
      [] alg = "ES384" -> SECP384R1
      [] alg = "ES512" -> SECP521R1

\* from_curve with the arms of P-384 and P-521 exchanged.
from_curve_mut(nid) ==
    CASE nid = X9_62_PRIME256V1 -> Ok("ES256")
      [] nid = SECP384R1 -> Ok("ES512")
      [] nid = SECP521R1 -> Ok("ES384")
      [] OTHER -> Err("UnsupportedOrInvalidKey")

from_curve(nid) ==
    CASE nid = X9_62_PRIME256V1 -> Ok("ES256")
      [] nid = SECP384R1 -> Ok("ES384")
      [] nid = SECP521R1 -> Ok("ES512")
      [] OTHER -> Err("UnsupportedOrInvalidKey")

digest(alg) ==
    CASE alg = "ES256" -> "sha256"
      [] alg = "ES384" -> "sha384"
      [] alg = "ES512" -> "sha512"

\* MessageDigest::size, in bytes.
md_size(md) ==
    CASE md = "sha256" -> 32
      [] md = "sha384" -> 48
      [] md = "sha512" -> 64

name(alg) ==
    CASE alg = "ES256" -> "ES256"
      [] alg = "ES384" -> "ES384"
      [] alg = "ES512" -> "ES512"

curve_name(alg) ==
    CASE alg = "ES256" -> "P-256"
      [] alg = "ES384" -> "P-384"
      [] alg = "ES512" -> "P-521"

from_curve_name(str) ==
    CASE str = "P-256" -> Ok("ES256")
      [] str = "P-384" -> Ok("ES384")
      [] str = "P-521" -> Ok("ES512")
      [] OTHER -> Err("UnsupportedOrInvalidKey")

sig_len_mut(alg) ==
    CASE alg = "ES256" -> 64
      [] alg = "ES384" -> 96
      [] alg = "ES512" -> 128

sig_len(alg) ==
    CASE alg = "ES256" -> 64
      [] alg = "ES384" -> 96
      [] alg = "ES512" -> 132

\* --------------------------------------------- the primitive library's side

\* The byte length of a field element of the curve's group (what
\* EcGroup::from_curve_name fixes): the range of a coordinate.
FieldBytes(nid) ==
    CASE nid = X9_62_PRIME256V1 -> 32
      [] nid = SECP384R1 -> 48
      [] nid = SECP521R1 -> 66
      [] OTHER -> 32

\* A magnitude of k >= 1 bytes: a non-zero leading byte, zero bytes inside,
\* and (for k >= 2) a non-zero last byte.
Mag(k, lead) == IF k = 1 THEN <<lead>> ELSE <<lead>> \o Zeros(k - 2) \o <<lead>>

\* The leading bytes enumerated for a magnitude of k bytes in a field of w
\* bytes. The order and the prime of P-521 have 521 bits: a 66-byte value
\* starts with 0x01.
Leads(w, k) == IF w = 66 /\ k = 66 THEN {1} ELSE {1, 255}

\* The lengths enumerated for a magnitude in a field of w bytes.
KLens(w) == (1..MaxShort) \cup ((w - MaxPad)..w)

\* The BigNums in [1, n-1] that the signing primitive may return as r or s.
Mags(alg) ==
    LET w == FieldBytes(curve(alg))
    IN { Mag(k, l) : <<k, l>> \in { kl \in KLens(w) \X {1, 255} : kl[2] \in Leads(w, kl[1]) } }

\* The points of the curve enumerated as public keys: x and y are BigNums,
\* each with some (possibly zero) leading zero bytes in its field-width form.
Points(nid) ==
    LET w == FieldBytes(nid)
    IN { [x |-> Mag(w - z[1], 1), y |-> Mag(w - z[2], 1)] :
            z \in { zz \in (0..MaxPad) \X (0..MaxPad) : zz[1] + zz[2] <= MaxPad } }

\* EC_POINT_is_on_curve, as EC_KEY_set_public_key_affine_coordinates and
\* EC_KEY_check_key decide it.
on_curve(nid, x, y) == [x |-> x, y |-> y] \in Points(nid)

\* The ECDSA relation between a public point, a message and (r, s), which the
\* signing primitive satisfies and the verifying primitive decides. Its
\* arithmetic is the primitive library's; here it is a fixed relation that
\* depends on every argument, and rejects r = 0 and s = 0.
ecdsa_valid(md, point, v, r, s) ==
    /\ r # <<>>
    /\ s # <<>>
    /\ (Len(r) + Len(s) + Len(v) + Len(point.x) + md_size(md) \div 16) % 2 = 0

\* Verifier::verify_oneshot(&der, v): parses the DER and decides the relation.
verify_oneshot(md, pkey, der, v) ==
    LET sg == from_der(der)
    IN ecdsa_valid(md, pkey.point, v, sg.r, sg.s)

\* A PKey holding an EC key.
EcPKey(nid, point, private, consistent) ==
    [id |-> "EC", nid |-> nid, point |-> point, private |-> private,
     consistent |-> consistent]

\* A PKey of another key type.
OtherPKey(id, private) ==
    [id |-> id, nid |-> NoNid, point |-> [x |-> <<>>, y |-> <<>>],
     private |-> private, consistent |-> TRUE]

\* PKey::private_key_from_pem: PKCS#8 and the legacy EC form are read.
private_key_from_pem(pem) ==
    IF pem.label \in {"PRIVATE KEY", "EC PRIVATE KEY"} /\ pem.pkey.private
    THEN Ok(pem.pkey)
    ELSE Err(OpenSslError)

\* PKey::public_key_from_pem: SubjectPublicKeyInfo is read.
public_key_from_pem(pem) ==
    IF pem.label = "PUBLIC KEY" /\ ~pem.pkey.private
    THEN Ok(pem.pkey)
    ELSE Err(OpenSslError)

\* ------------------------------------------------------- EcdsaPrivateKey

EcdsaPrivateKey(pkey, alg) == [kind |-> "private", pkey |-> pkey, algorithm |-> alg]

EcdsaPublicKey(pkey, alg) == [kind |-> "public", pkey |-> pkey, algorithm |-> alg]

\* EcdsaPrivateKey::generate; `point` is the key the primitive drew.
generate(alg, point) ==
    Ok(EcdsaPrivateKey(EcPKey(curve(alg), point, TRUE, TRUE), alg))

\* pk.ec_key()? fails for a key that is not an EC key and check_key()? for an
\* inconsistent one; curve_name() is None for an unnamed group.
EcdsaPrivateKey_from_pkey(pk) ==
    IF pk.id # "EC" THEN Err(OpenSslError)
    ELSE IF ~pk.consistent THEN Err(OpenSslError)
    ELSE IF pk.nid = NoNid THEN Err("UnsupportedOrInvalidKey")
    ELSE LET algorithm == from_curve(pk.nid)
         IN IF IsOk(algorithm) THEN Ok(EcdsaPrivateKey(pk, algorithm.val))
            ELSE algorithm

EcdsaPrivateKey_from_pem(pem) ==
    LET pk == private_key_from_pem(pem)
    IN IF IsOk(pk) THEN EcdsaPrivateKey_from_pkey(pk.val) ELSE pk

EcdsaPrivateKey_coordinates(self) ==
    Ok([x |-> to_vec(self.pkey.point.x), y |-> to_vec(self.pkey.point.y)])

\* -------------------------------------------------------- EcdsaPublicKey

EcdsaPublicKey_from_pkey(pkey) ==
    IF pkey.id # "EC" THEN Err(OpenSslError)
    ELSE IF ~pkey.consistent THEN Err(OpenSslError)
    ELSE IF pkey.nid = NoNid THEN Err("UnsupportedOrInvalidKey")
    ELSE LET algorithm == from_curve(pkey.nid)
         IN IF IsOk(algorithm) THEN Ok(EcdsaPublicKey(pkey, algorithm.val))
            ELSE algorithm

EcdsaPublicKey_from_pem(pem) ==
    LET pk == public_key_from_pem(pem)
    IN IF IsOk(pk) THEN EcdsaPublicKey_from_pkey(pk.val) ELSE pk

EcdsaPublicKey_coordinates(self) ==
    Ok([x |-> to_vec(self.pkey.point.x), y |-> to_vec(self.pkey.point.y)])

from_coordinates(x, y, alg) ==
    LET bx == from_slice(x)
        by == from_slice(y)
    IN IF on_curve(curve(alg), bx, by)
       THEN Ok(EcdsaPublicKey(EcPKey(curve(alg), [x |-> bx, y |-> by], FALSE, TRUE), alg))
       ELSE Err(OpenSslError)

\* ------------------------------------------------------------------ sign

\* out[a..b].copy_from_slice(src), 0-based a and exclusive b: panics when the
\* range is not in `out` or its length is not src's.
copy_from_slice(out, a, b, src) ==
    IF a < 0 \/ a > b \/ b > Len(out) \/ b - a # Len(src)
    THEN [panic |-> TRUE, val |-> out]
    ELSE [panic |-> FALSE,
          val |-> [i \in 1..Len(out) |-> IF a < i /\ i <= b THEN src[i - a] ELSE out[i]]]

\* sign with r copied to the start of the first half instead of its end.
sign_mut(self, v, prim) ==
    LET sig == from_der(to_der(prim.r, prim.s))
        r == to_vec(sig.r)
        s == to_vec(sig.s)
        siglen == sig_len(self.algorithm)
        half_len == siglen \div 2
        o1 == copy_from_slice(Zeros(siglen), 0, Len(r), r)
        o2 == copy_from_slice(o1.val, siglen - Len(s), siglen, s)
    IN IF o1.panic \/ o2.panic THEN Panic ELSE Ok(o2.val)

\* <EcdsaPrivateKey as SigningKey>::sign. `prim` is the (r, s) the signing
\* primitive computed for the key and v; the Signer returns it DER-encoded.
sign(self, v, prim) ==
    LET sig_der == to_der(prim.r, prim.s)
        sig == from_der(sig_der)
        out == Zeros(sig_len(self.algorithm))
        r == to_vec(sig.r)
        s == to_vec(sig.s)
        siglen == sig_len(self.algorithm)
        half_len == siglen \div 2
        o1 == copy_from_slice(out, half_len - Len(r), half_len, r)
        o2 == copy_from_slice(o1.val, siglen - Len(s), siglen, s)
    IN IF o1.panic \/ o2.panic THEN Panic ELSE Ok(o2.val)

\* EcdsaPrivateKey's SigningKey::alg.
alg_of(self) == name(self.algorithm)

\* ------------------------------------------------------------------- JWK

\* The crate's base64 configuration: the URL-safe alphabet, no padding,
\* trailing bits accepted on decoding.
url_safe_trailing_bits == [alphabet |-> "url_safe", pad |-> FALSE, trailing_bits |-> TRUE]

\* base64::encode_config: text as the sequence of its symbols' indices
\* (0..63) in the configuration's alphabet, three bytes to four symbols; the
\* padding character is symbol 64.
encode_config(bytes, config) ==
    LET n == Len(bytes)
        m == (4 * n + 2) \div 3
        byte(j) == IF j <= n THEN bytes[j] ELSE 0
        sym(i) ==
            LET g == (i - 1) \div 4
                k == (i - 1) % 4
                b1 == byte(3 * g + 1)
                b2 == byte(3 * g + 2)
                b3 == byte(3 * g + 3)
            IN CASE k = 0 -> b1 \div 4
                 [] k = 1 -> (b1 % 4) * 16 + b2 \div 16
                 [] k = 2 -> (b2 % 16) * 4 + b3 \div 64
                 [] k = 3 -> b3 % 64
        body == [i \in 1..m |-> sym(i)]
    IN IF config.pad THEN body \o Rep(64, (4 - (m % 4)) % 4) ELSE body

\* base64::decode_config, for text without padding: four symbols to three
\* bytes; a single left-over symbol is an error.
decode_config(text, config) ==
    LET m == Len(text)
        n == (3 * m) \div 4
        at(i) == IF i <= m THEN text[i] ELSE 0
        byte(j) ==
            LET g == (j - 1) \div 3
                k == (j - 1) % 3
                s1 == at(4 * g + 1)
                s2 == at(4 * g + 2)
                s3 == at(4 * g + 3)
                s4 == at(4 * g + 4)
            IN CASE k = 0 -> s1 * 4 + s2 \div 16
                 [] k = 1 -> (s2 % 16) * 16 + s3 \div 4
                 [] k = 2 -> (s3 % 4) * 64 + s4
    IN IF m % 4 = 1 \/ \E i \in 1..m : text[i] > 63
       THEN Err("InvalidBase64")
       ELSE Ok([j \in 1..n |-> byte(j)])

Jwk(kty, use_, alg, crv, x, y) ==
    [kty |-> kty, use_ |-> use_, alg |-> alg, crv |-> crv, x |-> x, y |-> y]

EcdsaPrivateKey_SigningKey_public_key_to_jwk(self) ==
    LET c == EcdsaPrivateKey_coordinates(self)
    IN IF ~IsOk(c) THEN c
       ELSE Ok(Jwk("EC", "sig", name(self.algorithm), curve_name(self.algorithm),
                   encode_config(c.val.x, url_safe_trailing_bits),
                   encode_config(c.val.y, url_safe_trailing_bits)))

EcdsaPrivateKey_VerificationKey_public_key_to_jwk(self) ==
    LET c == EcdsaPrivateKey_coordinates(self)
    IN IF ~IsOk(c) THEN c
       ELSE Ok(Jwk("EC", "sig", name(self.algorithm), curve_name(self.algorithm),
                   encode_config(c.val.x, url_safe_trailing_bits),
                   encode_config(c.val.y, url_safe_trailing_bits)))

\* The public key's export with the algorithm name written as crv.
EcdsaPublicKey_public_key_to_jwk_mut(self) ==
    LET c == EcdsaPublicKey_coordinates(self)
    IN IF ~IsOk(c) THEN c
       ELSE Ok(Jwk("EC", "sig", name(self.algorithm), name(self.algorithm),
                   encode_config(c.val.x, url_safe_trailing_bits),
                   encode_config(c.val.y, url_safe_trailing_bits)))

EcdsaPublicKey_public_key_to_jwk(self) ==
    LET c == EcdsaPublicKey_coordinates(self)
    IN IF ~IsOk(c) THEN c
       ELSE Ok(Jwk("EC", "sig", name(self.algorithm), curve_name(self.algorithm),
                   encode_config(c.val.x, url_safe_trailing_bits),
                   encode_config(c.val.y, url_safe_trailing_bits)))

\* ---------------------------------------------------------------- verify

\* Line 252: the r bytes, from the first non-zero byte of sig to half_len.
split_r(alg, sig) ==
    LET half_len == sig_len(alg) \div 2
    IN slice(sig, unwrap_or(position(sig), half_len - 1), half_len)

\* Lines 253-254: the s bytes, the second half from its first non-zero byte.
split_s(alg, sig) ==
    LET half_len == sig_len(alg) \div 2
        s == slice(sig, half_len, Len(sig))
    IN IF s.panic THEN s
       ELSE slice(s.val, unwrap_or(position(s.val), half_len - 1), Len(s.val))

\* What a verify call did: its result, the steps it took in order, the byte
\* buffers it gave to BigNum::from_slice and the (r, s) it gave to the
\* verifying primitive (both empty when the call did not get that far).
Verdict(res, steps, bufs, handed) ==
    [res |-> res, steps |-> steps, bufs |-> bufs, handed |-> handed]

\* es256_verify with the length check accepting a longer signature.
es256_verify_mut(alg, k, v, sig) ==
    IF Len(sig) < sig_len(alg)
    THEN Verdict(Err("VerificationError"), <<"len_check">>, <<>>, <<>>)
    ELSE LET r == split_r(alg, sig)
             s == split_s(alg, sig)
         IN IF r.panic \/ s.panic
            THEN Verdict(Panic, <<"len_check", "decode">>, <<>>, <<>>)
            ELSE LET der == to_der(from_slice(r.val), from_slice(s.val))
                     h == from_der(der)
                 IN Verdict(IF verify_oneshot(digest(alg), k, der, v)
                            THEN Ok(<<>>) ELSE Err("VerificationError"),
                            <<"len_check", "decode", "primitive">>,
                            <<r.val, s.val>>, <<h.r, h.s>>)

es256_verify(alg, k, v, sig) ==
    IF Len(sig) # sig_len(alg)
    THEN Verdict(Err("VerificationError"), <<"len_check">>, <<>>, <<>>)
    ELSE LET r == split_r(alg, sig)
             s == split_s(alg, sig)
         IN IF r.panic \/ s.panic
            THEN Verdict(Panic, <<"len_check", "decode">>, <<>>, <<>>)
            ELSE LET der == to_der(from_slice(r.val), from_slice(s.val))
                     h == from_der(der)
                 IN Verdict(IF verify_oneshot(digest(alg), k, der, v)
                            THEN Ok(<<>>) ELSE Err("VerificationError"),
                            <<"len_check", "decode", "primitive">>,
                            <<r.val, s.val>>, <<h.r, h.s>>)

\* A verdict with the algorithm check put in front of its steps.
AfterAlgCheck(vd) == [vd EXCEPT !.steps = <<"alg_check">> \o vd.steps]

EcdsaPrivateKey_verify(self, v, sig, alg) ==
    IF alg # name(self.algorithm)
    THEN Verdict(Err("VerificationError"), <<"alg_check">>, <<>>, <<>>)
    ELSE AfterAlgCheck(es256_verify(self.algorithm, self.pkey, v, sig))

\* The public key's verify without the algorithm check.
EcdsaPublicKey_verify_mut(self, v, sig, alg) ==
    AfterAlgCheck(es256_verify(self.algorithm, self.pkey, v, sig))

EcdsaPublicKey_verify(self, v, sig, alg) ==
    IF alg # name(self.algorithm)
    THEN Verdict(Err("VerificationError"), <<"alg_check">>, <<>>, <<>>)
    ELSE AfterAlgCheck(es256_verify(self.algorithm, self.pkey, v, sig))

\* ---------------------------------------------- SomePrivateKey, SomePublicKey

RsaAlgorithm == {"RS256", "RS512", "PS256"}

\* RsaPrivateKey::from_pkey (rsa.rs): the key with the caller's algorithm.
RsaPrivateKey_from_pkey(pk, algorithm) ==
    IF pk.id # "RSA" THEN Err(OpenSslError)
    ELSE IF ~pk.consistent THEN Err("UnsupportedOrInvalidKey")
    ELSE Ok([kind |-> "private", pkey |-> pk, algorithm |-> algorithm])

\* RsaPublicKey::from_pkey (rsa.rs); some.rs passes None as the algorithm.
RsaPublicKey_from_pkey(pk, algorithm) ==
    IF pk.id # "RSA" THEN Err(OpenSslError)
    ELSE IF ~pk.consistent THEN Err("UnsupportedOrInvalidKey")
    ELSE Ok([kind |-> "public", pkey |-> pk, algorithm |-> algorithm])

\* Ed25519PrivateKey::from_pkey (eddsa.rs).
Ed25519PrivateKey_from_pkey(pk) ==
    IF pk.id # "ED25519" THEN Err("UnsupportedOrInvalidKey")
    ELSE Ok([kind |-> "private", pkey |-> pk, algorithm |-> "EdDSA"])

\* Ed25519PublicKey::from_pkey (eddsa.rs).
Ed25519PublicKey_from_pkey(pk) ==
    IF pk.id # "ED25519" THEN Err("UnsupportedOrInvalidKey")
    ELSE Ok([kind |-> "public", pkey |-> pk, algorithm |-> "EdDSA"])

\* A variant of SomePrivateKey or SomePublicKey around a key, or the key's
\* import error.
Variant(tag, k) == IF IsOk(k) THEN Ok([variant |-> tag, key |-> k.val]) ELSE k

\* SomePrivateKey::from_pem with EC material given to the RSA arm.
SomePrivateKey_from_pem_mut(pem, if_rsa_algorithm) ==
    LET pk == private_key_from_pem(pem)
    IN IF ~IsOk(pk) THEN pk
       ELSE CASE pk.val.id = "RSA" ->
                    Variant("Rsa", RsaPrivateKey_from_pkey(pk.val, if_rsa_algorithm))
              [] pk.val.id = "EC" ->
                    Variant("Rsa", [kind |-> "Ok",
                                    val |-> [kind |-> "private", pkey |-> pk.val,
                                             algorithm |-> if_rsa_algorithm]])
              [] pk.val.id = "ED25519" ->
                    Variant("Ed25519", Ed25519PrivateKey_from_pkey(pk.val))
              [] OTHER -> Err("UnsupportedOrInvalidKey")

SomePrivateKey_from_pem(pem, if_rsa_algorithm) ==
    LET pk == private_key_from_pem(pem)
    IN IF ~IsOk(pk) THEN pk
       ELSE CASE pk.val.id = "RSA" ->
                    Variant("Rsa", RsaPrivateKey_from_pkey(pk.val, if_rsa_algorithm))
              [] pk.val.id = "EC" ->
                    Variant("Ecdsa", EcdsaPrivateKey_from_pkey(pk.val))
              [] pk.val.id = "ED25519" ->
                    Variant("Ed25519", Ed25519PrivateKey_from_pkey(pk.val))
              [] OTHER -> Err("UnsupportedOrInvalidKey")

SomePublicKey_from_pem(pem) ==
    LET pk == public_key_from_pem(pem)
    IN IF ~IsOk(pk) THEN pk
       ELSE CASE pk.val.id = "RSA" ->
                    Variant("Rsa", RsaPublicKey_from_pkey(pk.val, "None"))
              [] pk.val.id = "EC" ->
                    Variant("Ecdsa", EcdsaPublicKey_from_pkey(pk.val))
              [] pk.val.id = "ED25519" ->
                    Variant("Ed25519", Ed25519PublicKey_from_pkey(pk.val))
              [] OTHER -> Err("UnsupportedOrInvalidKey")

\* --------------------------------------------------------------- inputs

\* The payloads "..." and "....".
Msgs == { <<46, 46, 46>>, <<46, 46, 46, 46>> }

\* The algorithm names a caller claims.
AlgNames == {"ES256", "ES384", "ES512", "es256", "WRONG ALG"}

\* A magnitude right-aligned in w bytes.
Pad(m, w) == Zeros(w - Len(m)) \o m

\* The w-byte halves of a signature: every enumerated magnitude, and zero.
Halves(alg) ==
    { Pad(m, FieldBytes(curve(alg))) : m \in Mags(alg) \cup {<<>>} }

\* The byte strings of the algorithm's signature length.
WellFormed(alg) == { h[1] \o h[2] : h \in Halves(alg) \X Halves(alg) }

\* The byte strings given to verify as a signature for a key of `alg`: those
\* of the right length, each of them one byte shorter and one byte longer,
\* the empty string, and strings of the other algorithms' lengths.
SigInputs(alg) ==
    WellFormed(alg)
    \cup { SubSeq(sg, 1, Len(sg) - 1) : sg \in WellFormed(alg) }
    \cup { sg \o <<0>> : sg \in WellFormed(alg) }
    \cup { <<>> }
    \cup UNION { { Pad(m, FieldBytes(curve(b))) \o Pad(m, FieldBytes(curve(b))) : m \in Mags(b) } :
                 b \in EcdsaAlgorithm \ {alg} }

Nids == {X9_62_PRIME256V1, SECP384R1, SECP521R1, SECP256K1, NoNid}

\* What a PEM text holds: its label and the key it encodes.
Pem(label, pkey) == [label |-> label, pkey |-> pkey]

PemInputs ==
    UNION { { Pem(l, EcPKey(nid, pt, TRUE, c)) :
                l \in {"PRIVATE KEY", "EC PRIVATE KEY"},
                pt \in Points(nid), c \in BOOLEAN } : nid \in Nids }
    \cup UNION { { Pem("PUBLIC KEY", EcPKey(nid, pt, FALSE, c)) :
                pt \in Points(nid), c \in BOOLEAN } : nid \in Nids }
    \cup { Pem("PRIVATE KEY", OtherPKey(id, TRUE)) : id \in {"RSA", "ED25519", "DSA"} }
    \cup { Pem("PUBLIC KEY", OtherPKey(id, FALSE)) : id \in {"RSA", "ED25519", "DSA"} }
    \cup { Pem("GARBAGE", OtherPKey("none", FALSE)) }

\* The coordinate buffers given to from_coordinates: a point's coordinates as
\* coordinates() returns them, the same left-padded to the field width, and a
\* pair that is no point.
CoordInputs(alg) ==
    LET w == FieldBytes(curve(alg))
    IN { <<pt.x, pt.y>> : pt \in Points(curve(alg)) }
       \cup { <<Pad(pt.x, w), Pad(pt.y, w)>> : pt \in Points(curve(alg)) }
       \cup { << <<2>>, <<3>> >> }

\* ---------------------------------------------------------- state machine

VARIABLES
    key,   \* the EC key object in the caller's hands, or NoKey
    last   \* the call that has just returned (its operation, its arguments and
           \* what it returned), or Idle once the caller has taken the result

vars == <<key, last>>

Idle == [op |-> "idle"]

Init ==
    /\ key = NoKey
    /\ last = Idle

Generate ==
    /\ last = Idle
    /\ \E alg \in EcdsaAlgorithm :
      \E pt \in Points(curve(alg)) :
        LET res == generate(alg, pt)
        IN /\ key' = res.val
           /\ last' = [op |-> "generate", alg |-> alg, res |-> res]

FromPemPrivate ==
    /\ last = Idle
    /\ \E pem \in PemInputs :
        LET res == EcdsaPrivateKey_from_pem(pem)
        IN /\ key' = IF IsOk(res) THEN res.val ELSE key
           /\ last' = [op |-> "from_pem", path |-> "private", pem |-> pem, res |-> res]

FromPemPublic ==
    /\ last = Idle
    /\ \E pem \in PemInputs :
        LET res == EcdsaPublicKey_from_pem(pem)
        IN /\ key' = IF IsOk(res) THEN res.val ELSE key
           /\ last' = [op |-> "from_pem", path |-> "public", pem |-> pem, res |-> res]

FromCoordinates ==
    /\ last = Idle
    /\ \E alg \in EcdsaAlgorithm :
        \E xy \in CoordInputs(alg) :
            LET res == from_coordinates(xy[1], xy[2], alg)
            IN /\ key' = IF IsOk(res) THEN res.val ELSE key
               /\ last' = [op |-> "from_coordinates", x |-> xy[1], y |-> xy[2],
                           alg |-> alg, res |-> res]

SomePrivateFromPem ==
    /\ last = Idle
    /\ \E pem \in PemInputs, a \in RsaAlgorithm :
        LET res == SomePrivateKey_from_pem(pem, a)
        IN /\ key' = IF IsOk(res) /\ res.val.variant = "Ecdsa" THEN res.val.key ELSE key
           /\ last' = [op |-> "some_from_pem", path |-> "private", pem |-> pem,
                       if_rsa_algorithm |-> a, res |-> res]

SomePublicFromPem ==
    /\ last = Idle
    /\ \E pem \in PemInputs :
        LET res == SomePublicKey_from_pem(pem)
        IN /\ key' = IF IsOk(res) /\ res.val.variant = "Ecdsa" THEN res.val.key ELSE key
           /\ last' = [op |-> "some_from_pem", path |-> "public", pem |-> pem,
                       if_rsa_algorithm |-> "None", res |-> res]

Coordinates ==
    /\ last = Idle
    /\ key # NoKey
    /\ last' = [op |-> "coordinates", key |-> key,
                res |-> IF key.kind = "private" THEN EcdsaPrivateKey_coordinates(key)
                        ELSE EcdsaPublicKey_coordinates(key)]
    /\ UNCHANGED key

Sign ==
    /\ last = Idle
    /\ key # NoKey
    /\ key.kind = "private"
    /\ \E v \in Msgs, r \in Mags(key.algorithm), s \in Mags(key.algorithm) :
          /\ ecdsa_valid(digest(key.algorithm), key.pkey.point, v, r, s)
          /\ last' = [op |-> "sign", key |-> key, v |-> v, prim |-> [r |-> r, s |-> s],
                      res |-> sign(key, v, [r |-> r, s |-> s])]
    /\ UNCHANGED key

Verify ==
    /\ last = Idle
    /\ key # NoKey
    /\ \E v \in Msgs, sig \in SigInputs(key.algorithm), alg \in AlgNames :
          LET vd == IF key.kind = "private" THEN EcdsaPrivateKey_verify(key, v, sig, alg)
                    ELSE EcdsaPublicKey_verify(key, v, sig, alg)
          IN last' = [op |-> "verify", key |-> key, v |-> v, sig |-> sig, alg |-> alg,
                      res |-> vd.res, steps |-> vd.steps, bufs |-> vd.bufs,
                      handed |-> vd.handed]
    /\ UNCHANGED key

PublicKeyToJwk ==
    /\ last = Idle
    /\ key # NoKey
    /\ \E impl \in {"SigningKey", "VerificationKey"} :
          /\ impl = "SigningKey" => key.kind = "private"
          /\ last' = [op |-> "public_key_to_jwk", key |-> key, impl |-> impl,
                      res |-> IF key.kind = "public"
                              THEN EcdsaPublicKey_public_key_to_jwk(key)
                              ELSE IF impl = "SigningKey"
                              THEN EcdsaPrivateKey_SigningKey_public_key_to_jwk(key)
                              ELSE EcdsaPrivateKey_VerificationKey_public_key_to_jwk(key)]
    /\ UNCHANGED key

\* The key's owner goes out of scope.
Drop ==
    /\ last = Idle
    /\ key # NoKey
    /\ key' = NoKey
    /\ UNCHANGED last

\* The caller takes the result of the call; the next call can start.
Return ==
    /\ last # Idle
    /\ last' = Idle
    /\ UNCHANGED key

Next ==
    \/ Generate
    \/ FromPemPrivate
    \/ FromPemPublic
    \/ FromCoordinates
    \/ SomePrivateFromPem
    \/ SomePublicFromPem
    \/ Coordinates
    \/ Sign
    \/ Verify
    \/ PublicKeyToJwk
    \/ Drop
    \/ Return

Spec == Init /\ [][Next]_vars

\* ---------------------------------------------------------------- claims

\* C1: signature codec round trip. For a signature returned by sign from the
\* primitive's (r, s), each a minimal magnitude of at most L/2 bytes, the
\* split and leading-zero strip of es256_verify give buffers whose integers
\* are r and s, and (r, s) is the pair handed to the verifying primitive.
C1_RoundTrip ==
    (last.op = "sign" /\ IsOk(last.res)) =>
        LET vd == es256_verify(last.key.algorithm, last.key.pkey, last.v, last.res.val)
        IN /\ Len(last.prim.r) <= FieldBytes(last.key.pkey.nid)
           /\ Len(last.prim.s) <= FieldBytes(last.key.pkey.nid)
           /\ vd.bufs # <<>>
           /\ from_slice(vd.bufs[1]) = last.prim.r
           /\ from_slice(vd.bufs[2]) = last.prim.s
           /\ vd.handed = <<last.prim.r, last.prim.s>>
           /\ IsOk(vd.res)

\* A signature was made from a one-byte r, padded over the whole half, and an
\* s whose top bit is set (DER puts a zero octet in front of it).
C1_Witness ==
    /\ last.op = "sign"
    /\ IsOk(last.res)
    /\ Len(last.prim.r) = 1
    /\ Len(last.prim.s) > 1
    /\ last.prim.s[1] = 255

\* C2: a successful sign returns exactly 64 / 96 / 132 bytes for ES256 /
\* ES384 / ES512; the first half is r's magnitude right-aligned after zero
\* bytes, the second half s's, and nothing else is non-zero.
C2_SignLayout ==
    (last.op = "sign" /\ IsOk(last.res)) =>
        LET L == CASE last.key.algorithm = "ES256" -> 64
                   [] last.key.algorithm = "ES384" -> 96
                   [] last.key.algorithm = "ES512" -> 132
            h == L \div 2
            out == last.res.val
            r == last.prim.r
            s == last.prim.s
        IN /\ Len(out) = L
           /\ Len(r) <= h
           /\ Len(s) <= h
           /\ SubSeq(out, 1, h) = Zeros(h - Len(r)) \o r
           /\ SubSeq(out, h + 1, L) = Zeros(h - Len(s)) \o s

\* An ES512 key signed, with an r that needs padding and a full-width s.
C2_Witness ==
    /\ last.op = "sign"
    /\ IsOk(last.res)
    /\ last.key.algorithm = "ES512"
    /\ Len(last.res.val) = 132
    /\ Len(last.prim.r) = 1
    /\ Len(last.prim.s) = 66

\* C3: verify with a claimed algorithm name other than the key's own returns
\* VerificationError after the name comparison alone: no length check, no
\* buffer decoded, nothing handed to the primitive; for private and public
\* keys, whatever the signature's length and content.
C3_AlgMismatch ==
    (last.op = "verify" /\ last.alg # last.key.algorithm) =>
        /\ IsErr(last.res, "VerificationError")
        /\ last.steps = <<"alg_check">>
        /\ last.bufs = <<>>
        /\ last.handed = <<>>

\* A public key was asked to verify, under a wrong name, a signature that it
\* accepts under its own name.
C3_Witness ==
    /\ last.op = "verify"
    /\ last.key.kind = "public"
    /\ last.alg = "WRONG ALG"
    /\ IsErr(last.res, "VerificationError")
    /\ IsOk(es256_verify(last.key.algorithm, last.key.pkey, last.v, last.sig).res)

\* C4: with the key's own algorithm name, a signature whose length is not
\* 64 / 96 / 132 (for ES256 / ES384 / ES512) is refused with
\* VerificationError at the length check: no byte is decoded and nothing is
\* handed to the primitive.
C4_WrongLength ==
    (/\ last.op = "verify"
     /\ last.alg = last.key.algorithm
     /\ Len(last.sig) # (CASE last.key.algorithm = "ES256" -> 64
                           [] last.key.algorithm = "ES384" -> 96
                           [] last.key.algorithm = "ES512" -> 132)) =>
        /\ IsErr(last.res, "VerificationError")
        /\ last.steps = <<"alg_check", "len_check">>
        /\ last.bufs = <<>>
        /\ last.handed = <<>>

\* An ES256 key refused, under its own name, the first 63 bytes of a
\* signature it accepts.
C4_Witness ==
    /\ last.op = "verify"
    /\ last.key.algorithm = "ES256"
    /\ last.alg = "ES256"
    /\ Len(last.sig) = 63
    /\ IsErr(last.res, "VerificationError")
    /\ \E b \in {1, 255} :
          IsOk(es256_verify("ES256", last.key.pkey, last.v, last.sig \o <<b>>).res)

\* C5: every call returns a success or a failure value and none aborts; a
\* verify under the key's own name of a signature of the right length
\* decodes both halves.
C5_NeverAborts ==
    /\ last # Idle => last.res.kind \in {"Ok", "Err"}
    /\ (/\ last.op = "verify"
        /\ last.alg = last.key.algorithm
        /\ Len(last.sig) = sig_len(last.key.algorithm)) => last.bufs # <<>>

C7_Dispatch ==
    last.op = "some_from_pem" =>
        LET parsed == IF last.path = "private" THEN private_key_from_pem(last.pem)
                      ELSE public_key_from_pem(last.pem)
            id == last.pem.pkey.id
        IN IF ~IsOk(parsed) THEN ~IsOk(last.res)
           ELSE /\ IsOk(last.res) =>
                     /\ id \in {"RSA", "EC", "ED25519"}
                     /\ last.res.val.variant = (CASE id = "RSA" -> "Rsa"
                                                  [] id = "EC" -> "Ecdsa"
                                                  [] id = "ED25519" -> "Ed25519")
                /\ id \notin {"RSA", "EC", "ED25519"} =>
                     IsErr(last.res, "UnsupportedOrInvalidKey")
                /\ (last.path = "private" /\ id \in {"EC", "ED25519"}) =>
                     \A a \in RsaAlgorithm : SomePrivateKey_from_pem(last.pem, a) = last.res

\* A P-384 private key was imported with PS256 given for the RSA case.
C7_Witness ==
    /\ last.op = "some_from_pem"
    /\ last.path = "private"
    /\ last.if_rsa_algorithm = "PS256"
    /\ last.pem.pkey.id = "EC"
    /\ IsOk(last.res)
    /\ last.res.val.variant = "Ecdsa"
    /\ last.res.val.key.algorithm = "ES384"

\* C8: public_key_to_jwk gives kty "EC", use "sig", the key's algorithm name
\* as alg, the matching curve name as crv, and x, y whose unpadded base64url
\* decoding is what coordinates() returns on that key; the private key's two
\* implementations and the public key's give the same JWK for a private key
\* and the public key made from it.
C8_JwkShape ==
    last.op = "public_key_to_jwk" =>
        LET k == last.key
            c == IF k.kind = "private" THEN EcdsaPrivateKey_coordinates(k)
                 ELSE EcdsaPublicKey_coordinates(k)
            priv == EcdsaPrivateKey([k.pkey EXCEPT !.private = TRUE], k.algorithm)
            pub == from_coordinates(c.val.x, c.val.y, k.algorithm)
        IN /\ IsOk(last.res)
           /\ IsOk(c)
           /\ last.res.val.kty = "EC"
           /\ last.res.val.use_ = "sig"
           /\ last.res.val.alg = k.algorithm
           /\ <<last.res.val.alg, last.res.val.crv>> \in
                 { <<"ES256", "P-256">>, <<"ES384", "P-384">>, <<"ES512", "P-521">> }
           /\ decode_config(last.res.val.x, url_safe_trailing_bits) = Ok(c.val.x)
           /\ decode_config(last.res.val.y, url_safe_trailing_bits) = Ok(c.val.y)
           /\ IsOk(pub)
           /\ EcdsaPublicKey_public_key_to_jwk(pub.val) = last.res
           /\ EcdsaPrivateKey_SigningKey_public_key_to_jwk(priv) = last.res
           /\ EcdsaPrivateKey_VerificationKey_public_key_to_jwk(priv) = last.res

\* A private ES384 key whose x has a leading zero byte was exported through
\* its SigningKey implementation.
C8_Witness ==
    /\ last.op = "public_key_to_jwk"
    /\ last.impl = "SigningKey"
    /\ last.key.kind = "private"
    /\ last.key.algorithm = "ES384"
    /\ Len(last.key.pkey.point.x) = 47
    /\ IsOk(last.res)
    /\ last.res.val.crv = "P-384"

\* C9: the x and y that coordinates() returns, and that the JWK encodes, have
\* the curve's field size (32 / 48 / 66 bytes for P-256 / P-384 / P-521), a
\* coordinate with leading zero bytes included.
C9_FixedWidth ==
    LET w == CASE last.key.algorithm = "ES256" -> 32
               [] last.key.algorithm = "ES384" -> 48
               [] last.key.algorithm = "ES512" -> 66
    IN /\ last.op = "coordinates" =>
            /\ IsOk(last.res)
            /\ Len(last.res.val.x) = w
            /\ Len(last.res.val.y) = w
       /\ last.op = "public_key_to_jwk" =>
            /\ IsOk(last.res)
            /\ decode_config(last.res.val.x, url_safe_trailing_bits).kind = "Ok"
            /\ Len(decode_config(last.res.val.x, url_safe_trailing_bits).val) = w
            /\ Len(decode_config(last.res.val.y, url_safe_trailing_bits).val) = w

\* C10: in a verify that passes the length check, each half is stripped of its
\* own leading zero bytes, whatever the other half holds, and a half that is
\* all zero goes to BigNum::from_slice as one zero byte.
C10_ZeroHalf ==
    (/\ last.op = "verify"
     /\ last.alg = last.key.algorithm
     /\ Len(last.sig) = sig_len(last.key.algorithm)) =>
        LET h == sig_len(last.key.algorithm) \div 2
            strip(half) == IF position(half) = NoneIdx THEN <<0>>
                           ELSE SubSeq(half, position(half) + 1, Len(half))
        IN last.bufs = << strip(SubSeq(last.sig, 1, h)),
                          strip(SubSeq(last.sig, h + 1, 2 * h)) >>

====
